---- MODULE Spec2Model ----
(***************************************************************************)
(* Firewall-Simulator (src/main.py): the navigation filter                 *)
(* (FirewallWebEnginePage.acceptNavigationRequest), the blocked-sites list *)
(* (MainWindow.add_blocked_site / remove_blocked_site), the log of blocked *)
(* attempts (MainWindow.log_blocked_attempt) and the status / statistics   *)
(* dialogs that read it.                                                   *)
(*                                                                         *)
(* Python strings are sequences of one-character strings, so lower(),      *)
(* strip(), endswith(), split(), re.match() and QUrl parsing are computed  *)
(* character by character.                                                 *)
(***************************************************************************)
EXTENDS Integers, Sequences, FiniteSets, TLC

(* ------------------------------ bounds ------------------------------- *)

\* longest blocked_sites list explored
MaxSites == 3

\* longest blocked_attempts log explored
MaxLog == 2

\* longest log handed to the statistics dialog on its own
MaxTopLog == 5

\* longest list of attempt strings handed to the time plot on its own
MaxHistLog == 4

(* ------------------------- characters, strings ----------------------- *)

UpperChars == <<"A","B","C","D","E","F","G","H","I","J","K","L","M",
                "N","O","P","Q","R","S","T","U","V","W","X","Y","Z">>

LowerChars == <<"a","b","c","d","e","f","g","h","i","j","k","l","m",
                "n","o","p","q","r","s","t","u","v","w","x","y","z">>

DigitChars == <<"0","1","2","3","4","5","6","7","8","9">>

Range(s) == {s[i] : i \in 1..Len(s)}

UpperSet == Range(UpperChars)

AlphaSet == Range(UpperChars) \cup Range(LowerChars)

DigitSet == Range(DigitChars)

IsUpper(c) == c \in UpperSet

IsAlpha(c) == c \in AlphaSet

IsDigit(c) == c \in DigitSet

\* a character of the regex class [A-Za-z0-9\-]
IsLabelChar(c) == IsAlpha(c) \/ IsDigit(c) \/ c = "-"

\* the whitespace str.strip() removes
IsSpace(c) == c \in {" ", "\t", "\n"}

LowerChar(c) ==
    IF IsUpper(c) THEN LowerChars[CHOOSE i \in 1..26 : UpperChars[i] = c] ELSE c

\* str.lower()
Lower(s) == [i \in 1..Len(s) |-> LowerChar(s[i])]

\* s[from:] of Python, 1-based: the characters from position from on
From(s, from) == SubSeq(s, from, Len(s))

\* str.startswith(pre)
StartsWith(s, pre) == Len(pre) <= Len(s) /\ SubSeq(s, 1, Len(pre)) = pre

\* str.endswith(suf)
EndsWith(s, suf) ==
    Len(suf) <= Len(s) /\ SubSeq(s, Len(s) - Len(suf) + 1, Len(s)) = suf

\* str.strip(): drop the leading and the trailing whitespace
Strip(s) ==
    LET keep == {i \in 1..Len(s) : ~IsSpace(s[i])}
    IN  IF keep = {} THEN <<>>
        ELSE LET lo == CHOOSE i \in keep : \A j \in keep : i <= j
                 hi == CHOOSE i \in keep : \A j \in keep : j <= i
             IN  SubSeq(s, lo, hi)

\* str.find(sep): the first position where sep occurs in s, 0 when none
Find(s, sep) ==
    LET hits == {i \in 1..(Len(s) - Len(sep) + 1) : SubSeq(s, i, i + Len(sep) - 1) = sep}
    IN  IF hits = {} THEN 0 ELSE CHOOSE i \in hits : \A j \in hits : i <= j

RECURSIVE Split(_, _)
\* str.split(sep) for a non-empty sep: the pieces between the occurrences of
\* sep, taken left to right without overlap
Split(s, sep) ==
    LET k == Find(s, sep)
    IN  IF k = 0 THEN <<s>>
        ELSE <<SubSeq(s, 1, k - 1)>> \o Split(From(s, k + Len(sep)), sep)

(* ------------------------------ library ------------------------------ *)

\* the domain shape of the pattern of line 376 without its optional prefix:
\* ([A-Za-z0-9\-]+\.)+[A-Za-z]{2,} anchored at both ends. The top-level domain
\* holds no dot, so it starts after the last dot of s.
LabelsTld(s) ==
    \E k \in 2..(Len(s) - 2) :
        /\ s[k] = "."
        /\ \A i \in (k + 1)..Len(s) : IsAlpha(s[i])
        /\ \A i \in 1..(k - 1) : IsLabelChar(s[i]) \/ s[i] = "."
        /\ s[1] # "."
        /\ \A i \in 1..(k - 1) : s[i] = "." => s[i + 1] # "."

\* re.match(r'^(www\.)?([A-Za-z0-9\-]+\.)+[A-Za-z]{2,}$', site) is not None
re_match_site(site) ==
    \/ LabelsTld(site)
    \/ StartsWith(site, <<"w","w","w",".">>) /\ LabelsTld(From(site, 5))

\* the characters that end the authority of a URL
IsAuthorityEnd(c) == c \in {"/", "?", "#"}

\* QUrl: the authority of scheme://authority..., <<>> when the text has no "://"
QUrl_authority(text) ==
    LET k == Find(text, <<":","/","/">>)
    IN  IF k = 0 THEN <<>>
        ELSE LET rest == From(text, k + 3)
                 ends == {i \in 1..Len(rest) : IsAuthorityEnd(rest[i])}
             IN  IF ends = {} THEN rest
                 ELSE SubSeq(rest, 1, (CHOOSE i \in ends : \A j \in ends : i <= j) - 1)

\* QUrl.host(): the authority without its :port, lowercased by QUrl; empty
\* when there is none or when it holds a character no host name may hold (the
\* QUrl is then invalid). User info (user@) is outside the URLs explored.
QUrl_host(text) ==
    LET auth == QUrl_authority(text)
        c    == Find(auth, <<":">>)
        h    == IF c = 0 THEN auth ELSE SubSeq(auth, 1, c - 1)
    IN  IF \A i \in 1..Len(h) : IsLabelChar(h[i]) \/ h[i] = "."
        THEN Lower(h) ELSE <<>>

\* QUrl.toString(): the text with the host in lower case; spaces of the path
\* are shown decoded, so the remainder of the text is unchanged
QUrl_toString(text) ==
    LET k == Find(text, <<":","/","/">>)
        n == Len(QUrl_authority(text))
    IN  IF k = 0 \/ QUrl_host(text) = <<>> THEN text
        ELSE SubSeq(text, 1, k + 2) \o Lower(SubSeq(text, k + 3, k + 2 + n))
             \o From(text, k + 3 + n)

\* a number below 100 as two digits (%H, %M, %S of strftime)
TwoDigits(n) == <<DigitChars[(n \div 10) + 1], DigitChars[(n % 10) + 1]>>

\* time.strftime("%Y-%m-%d %H:%M:%S", time.localtime()) for a clock reading of
\* t seconds into 1970-01-01, local time taken as UTC
strftime(t) ==
    <<"1","9","7","0","-","0","1","-","0","1"," ">>
    \o TwoDigits(t \div 3600) \o <<":">> \o TwoDigits((t \div 60) % 60)
    \o <<":">> \o TwoDigits(t % 60)

\* time.strftime("%H:%M", time.localtime(b)) for b seconds since the epoch
strftime_HM(b) == TwoDigits((b \div 3600) % 24) \o <<":">> \o TwoDigits((b \div 60) % 60)

\* the value of a run of digits
RECURSIVE DigitsValue(_)
DigitsValue(s) ==
    IF s = <<>> THEN 0
    ELSE 10 * DigitsValue(SubSeq(s, 1, Len(s) - 1))
         + (CHOOSE d \in 0..9 : DigitChars[d + 1] = s[Len(s)])

\* s is a run of lo to hi digits
IsDigits(s, lo, hi) == Len(s) >= lo /\ Len(s) <= hi /\ \A i \in 1..Len(s) : IsDigit(s[i])

\* the days of the months of a year that is not a leap year
MonthDays == <<31, 28, 31, 30, 31, 30, 31, 31, 30, 31, 30, 31>>

\* years 1970 to 2099: every fourth year is a leap year
IsLeap(y) == y % 4 = 0

RECURSIVE DaysBeforeMonth(_, _)
\* the days of year y before its month m
DaysBeforeMonth(y, m) ==
    IF m = 1 THEN 0
    ELSE DaysBeforeMonth(y, m - 1) + MonthDays[m - 1]
         + (IF m - 1 = 2 /\ IsLeap(y) THEN 1 ELSE 0)

\* time.strptime(s, "%Y-%m-%d %H:%M:%S"): the fields of s, or Malformed where
\* strptime raises ValueError. The year has four digits, the other fields
\* one or two; date and time are taken to be separated by a single space.
Malformed == [ok |-> FALSE, Y |-> 0, m |-> 0, d |-> 0, H |-> 0, M |-> 0, S |-> 0]

strptime(s) ==
    LET halves == Split(s, <<" ">>)
    IN  IF Len(halves) # 2 THEN Malformed
        ELSE LET date == Split(halves[1], <<"-">>)
                 tm   == Split(halves[2], <<":">>)
             IN  IF Len(date) # 3 \/ Len(tm) # 3 THEN Malformed
                 ELSE IF ~(/\ IsDigits(date[1], 4, 4) /\ IsDigits(date[2], 1, 2)
                           /\ IsDigits(date[3], 1, 2) /\ IsDigits(tm[1], 1, 2)
                           /\ IsDigits(tm[2], 1, 2) /\ IsDigits(tm[3], 1, 2))
                 THEN Malformed
                 ELSE LET r == [ok |-> TRUE,
                                Y |-> DigitsValue(date[1]), m |-> DigitsValue(date[2]),
                                d |-> DigitsValue(date[3]), H |-> DigitsValue(tm[1]),
                                M |-> DigitsValue(tm[2]), S |-> DigitsValue(tm[3])]
                      IN  IF /\ r.m >= 1 /\ r.m <= 12 /\ r.d >= 1 /\ r.d <= 31
                             /\ r.H <= 23 /\ r.M <= 59 /\ r.S <= 61
                          THEN r ELSE Malformed

\* time.mktime(st) for a struct_time of the years 1970 to 2099, local time
\* taken as UTC: the seconds since the epoch
mktime(st) ==
    ( 365 * (st.Y - 1970) + ((st.Y - 1969) \div 4)
      + DaysBeforeMonth(st.Y, st.m) + (st.d - 1) ) * 86400
    + st.H * 3600 + st.M * 60 + st.S

(* --------------------- FirewallWebEnginePage ------------------------- *)

\* QWebEnginePage.NavigationType
NavigationTypes == {"LinkClicked", "Typed", "FormSubmitted", "BackForward", "Reload", "Other"}

\* IsFilteredType with the test of the navigation type left out
IsFilteredTypeAny(type) == TRUE

\* line 30: the navigation types the filter looks at
IsFilteredType(type) == type = "LinkClicked" \/ type = "Typed"

\* SiteMatches with the suffix test missing its leading dot
SiteMatchesNoDot(domain, site) ==
    domain = Lower(site) \/ EndsWith(domain, Lower(site))

\* line 33: one blocked site against the lowercased host of the request
SiteMatches(domain, site) ==
    domain = Lower(site) \/ EndsWith(domain, <<".">> \o Lower(site))

\* log_blocked_attempt putting the new entry first
log_blocked_attempt_first(attempts, t, attempted_url) ==
    <<strftime(t) \o <<" ","-"," ">> \o attempted_url>> \o attempts

\* lines 410-416, MainWindow.log_blocked_attempt: the log with the entry
\* "<timestamp> - <attempted_url>" appended, t being the clock reading
log_blocked_attempt(attempts, t, attempted_url) ==
    Append(attempts, strftime(t) \o <<" ","-"," ">> \o attempted_url)

RECURSIVE SiteLoopNoReturn(_, _, _, _, _, _)
\* SiteLoop without the return of line 40: the loop goes on after a match and
\* logs once per matching site
SiteLoopNoReturn(i, sites, domain, url, t, attempts) ==
    IF i > Len(sites)
    THEN [accept |-> TRUE, attempts |-> attempts, html |-> <<>>]
    ELSE IF SiteMatches(domain, sites[i])
         THEN [accept   |-> FALSE,
               attempts |-> SiteLoopNoReturn(i + 1, sites, domain, url, t,
                                log_blocked_attempt(attempts, t, QUrl_toString(url))).attempts,
               html     |-> QUrl_toString(url)]
         ELSE SiteLoopNoReturn(i + 1, sites, domain, url, t, attempts)

RECURSIVE SiteLoop(_, _, _, _, _, _)
\* lines 32-40: the loop over blocked_sites from position i on. The first site
\* that matches logs the attempt, shows the blocked page and returns False;
\* when no site matches the loop falls through (line 41: the base class
\* accepts the request).
SiteLoop(i, sites, domain, url, t, attempts) ==
    IF i > Len(sites)
    THEN [accept |-> TRUE, attempts |-> attempts, html |-> <<>>]
    ELSE IF SiteMatches(domain, sites[i])
         THEN [accept   |-> FALSE,
               attempts |-> log_blocked_attempt(attempts, t, QUrl_toString(url)),
               html     |-> QUrl_toString(url)]
         ELSE SiteLoop(i + 1, sites, domain, url, t, attempts)

\* lines 26-41, acceptNavigationRequest(url, _type, isMainFrame): the answer,
\* the log afterwards and the URL of the blocked page shown (<<>>: none)
acceptNavigationRequest(sites, attempts, url, type, t) ==
    IF IsFilteredType(type)
    THEN SiteLoop(1, sites, Lower(QUrl_host(url)), url, t, attempts)
    ELSE [accept |-> TRUE, attempts |-> attempts, html |-> <<>>]

(* ---------------------------- MainWindow ------------------------------ *)

\* IsAlreadyBlocked comparing the strings as typed
IsAlreadyBlockedExact(sites, site) == site \in Range(sites)

\* line 379: site.lower() in [s.lower() for s in self.blocked_sites]
IsAlreadyBlocked(sites, site) ==
    Lower(site) \in {Lower(sites[i]) : i \in 1..Len(sites)}

\* add_blocked_site storing the site in lower case
add_blocked_site_lowered(sites, text) ==
    LET site == Lower(Strip(text))
    IN  IF site = <<>>
        THEN [msg |-> "InputError", sites |-> sites]
        ELSE IF ~re_match_site(site)
        THEN [msg |-> "InvalidFormat", sites |-> sites]
        ELSE IF IsAlreadyBlocked(sites, site)
        THEN [msg |-> "AlreadyBlocked", sites |-> sites]
        ELSE [msg |-> "Added", sites |-> Append(sites, site)]

\* add_blocked_site overwriting a stored duplicate with the spelling typed
add_blocked_site_overwrite(sites, text) ==
    LET site == Strip(text)
    IN  IF site = <<>>
        THEN [msg |-> "InputError", sites |-> sites]
        ELSE IF ~re_match_site(site)
        THEN [msg |-> "InvalidFormat", sites |-> sites]
        ELSE IF IsAlreadyBlocked(sites, site)
        THEN [msg |-> "AlreadyBlocked",
              sites |-> [i \in 1..Len(sites) |->
                            IF Lower(sites[i]) = Lower(site) THEN site ELSE sites[i]]]
        ELSE [msg |-> "Added", sites |-> Append(sites, site)]

\* lines 365-389, add_blocked_site with the text of the input field: the
\* message shown ("Added": none) and blocked_sites afterwards
add_blocked_site(sites, text) ==
    LET site == Strip(text)
    IN  IF site = <<>>
        THEN [msg |-> "InputError", sites |-> sites]
        ELSE IF ~re_match_site(site)
        THEN [msg |-> "InvalidFormat", sites |-> sites]
        ELSE IF IsAlreadyBlocked(sites, site)
        THEN [msg |-> "AlreadyBlocked", sites |-> sites]
        ELSE [msg |-> "Added", sites |-> Append(sites, site)]

\* list.remove(site): the list without the first element equal to site
ListRemove(sites, site) ==
    LET k == CHOOSE i \in 1..Len(sites) :
                 sites[i] = site /\ \A j \in 1..(i - 1) : sites[j] # site
    IN  SubSeq(sites, 1, k - 1) \o SubSeq(sites, k + 1, Len(sites))

\* remove_site comparing case-insensitively, as add_blocked_site does
remove_site_nocase(sites, site) ==
    SelectSeq(sites, LAMBDA x : Lower(x) # Lower(site))

\* lines 402-403: if site in self.blocked_sites: self.blocked_sites.remove(site)
remove_site(sites, site) ==
    IF site \in Range(sites) THEN ListRemove(sites, site) ELSE sites

\* lines 391-407, remove_blocked_site with row sel of the list widget
\* selected (0: no row; the widget keeps its default single selection): the
\* message shown ("Removed": none), blocked_sites and the widget afterwards
remove_blocked_site(sites, widget, sel) ==
    IF sel = 0
    THEN [msg |-> "SelectionError", sites |-> sites, widget |-> widget]
    ELSE [msg    |-> "Removed",
          sites  |-> remove_site(sites, widget[sel]),
          widget |-> SubSeq(widget, 1, sel - 1) \o SubSeq(widget, sel + 1, Len(widget))]

(* -------------------------- StatisticsDialog -------------------------- *)

\* lines 558-567, extract_site: the host of the text after the last " - "
extract_site(attempt) ==
    LET parts == Split(attempt, <<" ","-"," ">>)
    IN  QUrl_host(parts[Len(parts)])

RECURSIVE Counter(_)
\* collections.Counter(sites): the distinct elements in the order they were
\* first seen, each with the number of its occurrences
Counter(sites) ==
    IF sites = <<>> THEN <<>>
    ELSE LET c    == Counter(SubSeq(sites, 1, Len(sites) - 1))
             x    == sites[Len(sites)]
             at   == {i \in 1..Len(c) : c[i][1] = x}
         IN  IF at = {} THEN Append(c, <<x, 1>>)
             ELSE [i \in 1..Len(c) |-> IF i \in at THEN <<x, c[i][2] + 1>> ELSE c[i]]

\* InsertByCount putting the item before the items of equal count
InsertByCountBeforeEqual(sorted, item) ==
    LET k == Cardinality({i \in 1..Len(sorted) : sorted[i][2] > item[2]})
    IN  SubSeq(sorted, 1, k) \o <<item>> \o SubSeq(sorted, k + 1, Len(sorted))

\* one step of a stable sort by descending count: item goes after every item
\* whose count is at least its own
InsertByCount(sorted, item) ==
    LET k == Cardinality({i \in 1..Len(sorted) : sorted[i][2] >= item[2]})
    IN  SubSeq(sorted, 1, k) \o <<item>> \o SubSeq(sorted, k + 1, Len(sorted))

RECURSIVE SortedByCount(_)
\* sorted(items, key=count, reverse=True), which keeps equal counts in order
SortedByCount(items) ==
    IF items = <<>> THEN <<>>
    ELSE InsertByCount(SortedByCount(SubSeq(items, 1, Len(items) - 1)), items[Len(items)])

\* Counter.most_common(n): heapq.nlargest(n, items, key=count), which is
\* sorted(items, key=count, reverse=True)[:n]
most_common(counter, n) ==
    LET s == SortedByCount(counter)
    IN  SubSeq(s, 1, IF n < Len(s) THEN n ELSE Len(s))

\* line 599: interval = 60  # seconds
Interval == 60

\* lines 580-587 with the unparsable timestamps taken as the epoch instead of
\* being skipped
RECURSIVE TimestampsOfNoSkip(_)
TimestampsOfNoSkip(attempts) ==
    IF attempts = <<>> THEN <<>>
    ELSE LET st == strptime(Split(attempts[Len(attempts)], <<" ","-"," ">>)[1])
         IN  Append(TimestampsOfNoSkip(SubSeq(attempts, 1, Len(attempts) - 1)),
                    IF st.ok THEN mktime(st) ELSE 0)

RECURSIVE TimestampsOf(_)
\* lines 580-587: the timestamps of the attempts whose text before the first
\* " - " strptime can parse, in log order; the others are skipped
TimestampsOf(attempts) ==
    IF attempts = <<>> THEN <<>>
    ELSE LET rest == TimestampsOf(SubSeq(attempts, 1, Len(attempts) - 1))
             st   == strptime(Split(attempts[Len(attempts)], <<" ","-"," ">>)[1])
         IN  IF st.ok THEN Append(rest, mktime(st)) ELSE rest

\* line 602 with the timestamp rounded to the nearest interval
BucketOfNearest(ts) == ((ts + (Interval \div 2)) \div Interval) * Interval

\* line 602: bucket = int(ts // interval) * interval
BucketOf(ts) == (ts \div Interval) * Interval

RECURSIVE SortedSet(_)
\* sorted(keys): the numbers of a set in ascending order
SortedSet(S) ==
    IF S = {} THEN <<>>
    ELSE LET lo == CHOOSE x \in S : \A y \in S : x <= y
         IN  <<lo>> \o SortedSet(S \ {lo})

\* what the time plot shows: the bucket starts in ascending order, the number
\* of attempts of each and its tick label
NoPlot == [shown |-> "",  buckets |-> <<>>, counts |-> <<>>, times |-> <<>>]

\* lines 569-608, plot_blocked_over_time
plot_blocked_over_time(attempts) ==
    IF attempts = <<>>
    THEN [NoPlot EXCEPT !.shown = "No data available"]
    ELSE LET timestamps == TimestampsOf(attempts)
         IN  IF timestamps = <<>>
             THEN [NoPlot EXCEPT !.shown = "No valid timestamp data"]
             ELSE LET buckets == [i \in 1..Len(timestamps) |-> BucketOf(timestamps[i])]
                      sorted_buckets == SortedSet(Range(buckets))
                  IN  [shown   |-> "plot",
                       buckets |-> sorted_buckets,
                       counts  |-> [k \in 1..Len(sorted_buckets) |->
                                       Cardinality({i \in 1..Len(buckets) :
                                                       buckets[i] = sorted_buckets[k]})],
                       times   |-> [k \in 1..Len(sorted_buckets) |->
                                       strftime_HM(sorted_buckets[k])]]

\* line 556: most_common(5)
TopN == 5

\* lines 550-556, get_top_blocked_sites
get_top_blocked_sites(attempts) ==
    most_common(Counter([i \in 1..Len(attempts) |-> extract_site(attempts[i])]), TopN)

(* ------------------------------ inputs -------------------------------- *)

\* texts typed into the "add blocked site" field
SiteTexts ==
    { <<"a",".","a","a">>,                  \* a.aa
      <<"A",".","a","a">>,                  \* A.aa, a.aa in another case
      <<" ","b",".","a","a"," ">>,          \* b.aa between spaces
      <<"w",".","a",".","a","a">>,          \* w.a.aa, a subdomain of a.aa
      <<"a",".","a">>,                      \* top-level domain too short
      <<"a",".","a","1">>,                  \* digit in the top-level domain
      <<" ">> }                             \* nothing but whitespace

\* URLs of navigation requests
Urls ==
    { <<"h","t","t","p",":","/","/","a",".","a","a","/">>,              \* host a.aa
      <<"h","t","t","p",":","/","/","W",".","a",".","a","a","/",
        "x"," ","-"," ","y">>,                                         \* host W.a.aa
      <<"h","t","t","p",":","/","/","b","a",".","a","a","/">>,          \* host ba.aa
      <<"d","a","t","a",":","x">> }                                    \* no host

\* the navigation types of the requests explored
NavTypes == {"LinkClicked", "Typed", "Reload"}

\* clock readings, in seconds
Times == {10, 65}

(* ------------------------------- state -------------------------------- *)

VARIABLES
    blocked_sites,        \* MainWindow.blocked_sites, and the page's alias of it
    blocked_list_widget,  \* the item texts of MainWindow.blocked_list_widget
    blocked_attempts,     \* MainWindow.blocked_attempts
    browser_html,         \* the attempted URL of the blocked page shown last
    dialog,               \* the open status / statistics dialog
    call,                 \* the handler that ran last, its input and its outcome
    n_denied              \* how many navigation requests were refused so far

vars == <<blocked_sites, blocked_list_widget, blocked_attempts, browser_html,
          dialog, call, n_denied>>

NoDialog == [kind |-> "none", total |-> 0, items |-> <<>>, top_sites |-> <<>>,
             time_plot |-> NoPlot]

\* no handler is running: the event loop waits for the next event
NoCall == [op |-> "idle", arg |-> <<>>, type |-> "", ret |-> ""]

\* lines 223-231 and 322: both lists start empty
Init ==
    /\ blocked_sites = <<>>
    /\ blocked_list_widget = <<>>
    /\ blocked_attempts = <<>>
    /\ browser_html = <<>>
    /\ dialog = NoDialog
    /\ call = NoCall
    /\ n_denied = 0

\* lines 462 and 500, self.blocked_attempts = blocked_attempts: the open
\* dialog keeps the list object of the main window, not a copy of it
dialog_blocked_attempts == blocked_attempts

\* the event loop dispatches the next event when the last handler has returned
Idle == call.op = "idle"

\* dialog.exec_() is modal: the main window takes no input while it is open
MainWindowActive == Idle /\ dialog.kind = "none"

(* ------------------------------ actions ------------------------------- *)

\* the page asks whether it may navigate (lines 26-41)
Navigate ==
    /\ Idle
    /\ \E url \in Urls, type \in NavTypes, t \in Times :
        \E r \in {acceptNavigationRequest(blocked_sites, blocked_attempts, url, type, t)} :
            /\ Len(r.attempts) <= MaxLog
            /\ blocked_attempts' = r.attempts
            /\ browser_html' = IF r.accept THEN browser_html ELSE r.html
            /\ n_denied' = IF r.accept THEN n_denied ELSE n_denied + 1
            /\ call' = [op |-> "navigate", arg |-> url, type |-> type,
                        ret |-> IF r.accept THEN "Allow" ELSE "Deny"]
            /\ UNCHANGED <<blocked_sites, blocked_list_widget, dialog>>

\* the "add" button with the handler also starting a new log
AddBlockedSiteClearingLog ==
    /\ MainWindowActive
    /\ \E text \in SiteTexts :
        \E r \in {add_blocked_site(blocked_sites, text)} :
            /\ Len(r.sites) <= MaxSites
            /\ blocked_sites' = r.sites
            /\ blocked_list_widget' =
                   IF r.msg = "Added" THEN Append(blocked_list_widget, Strip(text))
                   ELSE blocked_list_widget
            /\ blocked_attempts' = <<>>
            /\ n_denied' = 0
            /\ call' = [op |-> "add", arg |-> text, type |-> "", ret |-> r.msg]
            /\ UNCHANGED <<browser_html, dialog>>

\* the "add" button (lines 365-389)
AddBlockedSite ==
    /\ MainWindowActive
    /\ \E text \in SiteTexts :
        \E r \in {add_blocked_site(blocked_sites, text)} :
            /\ Len(r.sites) <= MaxSites
            /\ blocked_sites' = r.sites
            /\ blocked_list_widget' =
                   IF r.msg = "Added" THEN Append(blocked_list_widget, Strip(text))
                   ELSE blocked_list_widget
            /\ call' = [op |-> "add", arg |-> text, type |-> "", ret |-> r.msg]
            /\ UNCHANGED <<blocked_attempts, browser_html, dialog, n_denied>>

\* the "remove" button (lines 391-407)
RemoveBlockedSite ==
    /\ MainWindowActive
    /\ \E sel \in 0..Len(blocked_list_widget) :
        \E r \in {remove_blocked_site(blocked_sites, blocked_list_widget, sel)} :
            /\ blocked_sites' = r.sites
            /\ blocked_list_widget' = r.widget
            /\ call' = [op |-> "remove",
                        arg |-> IF sel = 0 THEN <<>> ELSE blocked_list_widget[sel],
                        type |-> "", ret |-> r.msg]
            /\ UNCHANGED <<blocked_attempts, browser_html, dialog, n_denied>>

\* the "status" button (lines 419-424, 458-483): the dialog renders the total
\* and one list item per attempt when it is built
ShowStatus ==
    /\ MainWindowActive
    /\ dialog' = [kind |-> "status", total |-> Len(blocked_attempts),
                  items |-> blocked_attempts, top_sites |-> <<>>,
                  time_plot |-> NoPlot]
    /\ call' = [op |-> "show_status", arg |-> <<>>, type |-> "", ret |-> ""]
    /\ UNCHANGED <<blocked_sites, blocked_list_widget, blocked_attempts,
                   browser_html, n_denied>>

\* the "statistics" button (lines 427-432, 496-548): the dialog renders the
\* total, the top blocked sites and the plot of the attempts over time when it
\* is built
ShowStatistics ==
    /\ MainWindowActive
    /\ dialog' = [kind |-> "statistics", total |-> Len(blocked_attempts),
                  items |-> <<>>, top_sites |-> get_top_blocked_sites(blocked_attempts),
                  time_plot |-> plot_blocked_over_time(blocked_attempts)]
    /\ call' = [op |-> "show_statistics", arg |-> <<>>, type |-> "", ret |-> ""]
    /\ UNCHANGED <<blocked_sites, blocked_list_widget, blocked_attempts,
                   browser_html, n_denied>>

\* the dialog's "close" button (lines 485-487, 545-547)
CloseDialog ==
    /\ Idle
    /\ dialog.kind # "none"
    /\ dialog' = NoDialog
    /\ call' = [op |-> "close", arg |-> <<>>, type |-> "", ret |-> ""]
    /\ UNCHANGED <<blocked_sites, blocked_list_widget, blocked_attempts,
                   browser_html, n_denied>>

\* line 645, app.exec_(): the handler has returned to the event loop
ReturnToEventLoop ==
    /\ ~Idle
    /\ call' = NoCall
    /\ UNCHANGED <<blocked_sites, blocked_list_widget, blocked_attempts,
                   browser_html, dialog, n_denied>>

Next ==
    \/ ReturnToEventLoop
    \/ Navigate
    \/ AddBlockedSite
    \/ RemoveBlockedSite
    \/ ShowStatus
    \/ ShowStatistics
    \/ CloseDialog

Spec == Init /\ [][Next]_vars

(* ------------------ the statistics dialog on its own ------------------ *)

\* URLs of refused requests in the logs handed to the statistics dialog
TopUrls ==
    { <<"h","t","t","p",":","/","/","a",".","a","a","/">>,
      <<"h","t","t","p",":","/","/","b",".","a","a","/">>,
      <<"h","t","t","p",":","/","/","b","a",".","a","a","/">>,
      <<"h","t","t","p",":","/","/","w",".","a",".","a","a","/",
        "x"," ","-"," ","y">> }

\* the clock reading of these entries
TopTime == 10

RECURSIVE LogOf(_)
\* the log after the requests for urls were refused in this order
LogOf(urls) ==
    IF urls = <<>> THEN <<>>
    ELSE log_blocked_attempt(LogOf(SubSeq(urls, 1, Len(urls) - 1)), TopTime,
                             urls[Len(urls)])

\* the main window with any log of up to MaxTopLog refused requests, every
\* site removed from the blocklist again
InitTop ==
    \E n \in 0..MaxTopLog : \E urls \in [1..n -> TopUrls] :
        /\ blocked_sites = <<>>
        /\ blocked_list_widget = <<>>
        /\ blocked_attempts = LogOf(urls)
        /\ browser_html = IF n = 0 THEN <<>> ELSE urls[n]
        /\ dialog = NoDialog
        /\ call = NoCall
        /\ n_denied = n

NextTop ==
    \/ ReturnToEventLoop
    \/ ShowStatistics
    \/ CloseDialog

SpecTop == InitTop /\ [][NextTop]_vars

(* ------ plot_blocked_over_time as a function of the attempts list ---- *)

\* the URL of the attempt strings below
HistUrl == <<"h","t","t","p",":","/","/","a",".","a","a","/">>

\* clock readings of the first and of the second minute
HistTimes == {10, 50, 65}

\* attempt strings: the entries log_blocked_attempt writes at HistTimes, and
\* two strings whose text before " - " strptime rejects (no timestamp, and a
\* minute of 61)
HistEntries ==
    { log_blocked_attempt(<<>>, t, HistUrl)[1] : t \in HistTimes }
    \cup { <<"x"," ","-"," ">> \o HistUrl,
           <<"1","9","7","0","-","0","1","-","0","1"," ",
             "0","0",":","6","1",":","1","0"," ","-"," ">> \o HistUrl }

\* the statistics dialog built on any list of up to MaxHistLog attempt strings
\* (StatisticsDialog.__init__ takes the list as its argument)
InitHist ==
    \E n \in 0..MaxHistLog : \E entries \in [1..n -> HistEntries] :
        /\ blocked_sites = <<>>
        /\ blocked_list_widget = <<>>
        /\ blocked_attempts = entries
        /\ browser_html = <<>>
        /\ dialog = NoDialog
        /\ call = NoCall
        /\ n_denied = n

NextHist ==
    \/ ReturnToEventLoop
    \/ ShowStatistics
    \/ CloseDialog

SpecHist == InitHist /\ [][NextHist]_vars

(* ------------------------------- claims ------------------------------- *)

\* the dot-separated pieces of a host name
Labels(h) == Split(h, <<".">>)

\* host h is pattern p or a subdomain of it, case-insensitively: comparing
\* label by label, the labels of p are the last labels of h
HostUnder(h, p) ==
    LET hl == Labels(Lower(h))
        pl == Labels(Lower(p))
    IN  /\ Len(pl) <= Len(hl)
        /\ \A i \in 1..Len(pl) : hl[Len(hl) - Len(pl) + i] = pl[i]

\* the call that has just returned is a navigation request of a filtered type
FilteredCall == call.op = "navigate" /\ call.type \in {"LinkClicked", "Typed"}

\* C1: a filtered navigation request is refused if and only if some pattern of
\* the blocklist, whatever its position, is the request's host or a parent
\* domain of it, case-insensitively; a request without a host is allowed
C1_DenyIffSomePatternMatches ==
    FilteredCall =>
        /\ call.ret = "Deny" <=>
               \E p \in Range(blocked_sites) : HostUnder(QUrl_host(call.arg), p)
        /\ QUrl_host(call.arg) = <<>> => call.ret = "Allow"

\* C1 witness: a request refused for a subdomain of the second pattern of the
\* list, which is stored in another case than the host
C1_Witness ==
    /\ FilteredCall /\ call.ret = "Deny"
    /\ Len(blocked_sites) >= 2
    /\ QUrl_host(call.arg) \notin {Lower(p) : p \in Range(blocked_sites)}
    /\ \A p \in Range(blocked_sites) : HostUnder(QUrl_host(call.arg), p) => Lower(p) # p

\* C2: a refused navigation request appends exactly one entry to the log,
\* however many patterns match; an allowed one appends none; so the log is as
\* long as the number of requests refused so far
C2_OneRecordPerDeny ==
    [][ /\ call'.op = "navigate" /\ call'.ret = "Deny" =>
               /\ Len(blocked_attempts') = Len(blocked_attempts) + 1
               /\ SubSeq(blocked_attempts', 1, Len(blocked_attempts)) = blocked_attempts
        /\ call'.op = "navigate" /\ call'.ret = "Allow" =>
               blocked_attempts' = blocked_attempts
        /\ Len(blocked_attempts') = n_denied' ]_vars

\* C2 witness: the same URL refused twice at the same clock reading, its host
\* matching two patterns: the log holds the two equal entries
C2_Witness ==
    /\ call.op = "navigate" /\ call.ret = "Deny"
    /\ Cardinality({p \in Range(blocked_sites) : HostUnder(QUrl_host(call.arg), p)}) = 2
    /\ Len(blocked_attempts) = 2
    /\ blocked_attempts[1] = blocked_attempts[2]

\* C3: a navigation request of a type other than LinkClicked and Typed is
\* allowed and logs nothing, whatever the blocklist holds
C3_UnfilteredTypesBypass ==
    [][ call'.op = "navigate" /\ call'.type \notin {"LinkClicked", "Typed"} =>
            /\ call'.ret = "Allow"
            /\ blocked_attempts' = blocked_attempts ]_vars

\* C3 witness: a reload of a URL whose host is on the blocklist was allowed
C3_Witness ==
    /\ call.op = "navigate" /\ call.type = "Reload" /\ call.ret = "Allow"
    /\ \E p \in Range(blocked_sites) : HostUnder(QUrl_host(call.arg), p)

\* C4: no two entries of the blocklist are equal after lowercasing
C4_NoCaseInsensitiveDuplicates ==
    \A i, j \in 1..Len(blocked_sites) :
        i # j => Lower(blocked_sites[i]) # Lower(blocked_sites[j])

\* C4 witness: with three entries stored, one of them in upper case, adding
\* its lower-case spelling was rejected
C4_Witness ==
    /\ call.op = "add" /\ call.ret = "AlreadyBlocked"
    /\ Len(blocked_sites) = 3
    /\ Strip(call.arg) \notin Range(blocked_sites)
    /\ \E i \in 1..3 : Lower(blocked_sites[i]) = Strip(call.arg)

\* the text typed into the add field, trimmed
TypedSite == Strip(call'.arg)

\* s has the shape (label.)+tld: two or more dot-separated pieces, every piece
\* but the last a non-empty run of letters, digits and hyphens, the last one
\* a run of two or more letters
DomainShape(s) ==
    LET parts == Labels(s)
        n     == Len(parts)
    IN  /\ n >= 2
        /\ \A i \in 1..(n - 1) :
               parts[i] # <<>> /\ \A k \in 1..Len(parts[i]) : IsLabelChar(parts[i][k])
        /\ Len(parts[n]) >= 2
        /\ \A k \in 1..Len(parts[n]) : IsAlpha(parts[n][k])

\* C5 as stated: a successful add stores the input trimmed and lowercased,
\* once, after the entries stored before
C5_AddStoresLowercased ==
    [][ call'.op = "add" /\ call'.ret = "Added" =>
            /\ blocked_sites' = Append(blocked_sites, Lower(TypedSite))
            /\ Lower(TypedSite) \notin Range(blocked_sites) ]_vars

\* C5 amended: a successful add stores the input trimmed, in the case it was
\* typed in, once, after the entries stored before, which keep their order
C5_AddAppendsTrimmed ==
    [][ call'.op = "add" /\ call'.ret = "Added" =>
            /\ blocked_sites' = Append(blocked_sites, TypedSite)
            /\ TypedSite \notin Range(blocked_sites)
            /\ blocked_list_widget' = blocked_sites' ]_vars

\* C5 witness: an input in upper case was added as the third entry and is
\* stored as typed
C5_Witness ==
    /\ call.op = "add" /\ call.ret = "Added"
    /\ Len(blocked_sites) = 3
    /\ blocked_sites[3] = Strip(call.arg)
    /\ Lower(blocked_sites[3]) # blocked_sites[3]

\* C6: an add that fails, because the trimmed input is empty or not of the
\* shape (label.)+tld or because a stored entry equals it case-insensitively,
\* leaves the blocklist as it was; and add fails in exactly these cases
C6_FailedAddChangesNothing ==
    [][ call'.op = "add" =>
            LET dup == \E i \in 1..Len(blocked_sites) :
                           Lower(blocked_sites[i]) = Lower(TypedSite)
            IN  /\ call'.ret \in {"InputError", "InvalidFormat"} <=> ~DomainShape(TypedSite)
                /\ call'.ret = "InvalidFormat" => TypedSite # <<>>
                /\ call'.ret = "AlreadyBlocked" <=> DomainShape(TypedSite) /\ dup
                /\ call'.ret # "Added" =>
                       /\ blocked_sites' = blocked_sites
                       /\ blocked_list_widget' = blocked_list_widget ]_vars

\* C6 witness: with two or more entries stored, an input that differs from a
\* stored entry only by case was rejected as already blocked
C6_Witness ==
    /\ call.op = "add" /\ call.ret = "AlreadyBlocked"
    /\ Len(blocked_sites) >= 2
    /\ Strip(call.arg) \notin Range(blocked_sites)

\* the spellings remove may be asked for: every trimmed input and its
\* lower-case form
Candidates == {Strip(t) : t \in SiteTexts} \cup {Lower(Strip(t)) : t \in SiteTexts}

IsPrefix(s, t) == Len(s) <= Len(t) /\ SubSeq(t, 1, Len(s)) = s

\* C8: the log is append-only: in every step the log before the step is an
\* initial part of the log after it
C8_LogAppendOnly ==
    [][IsPrefix(blocked_attempts, blocked_attempts')]_vars

\* C8 witness: a second entry was appended while a dialog was open
C8_Witness ==
    /\ call.op = "navigate" /\ call.ret = "Deny"
    /\ Len(blocked_attempts) = 2
    /\ dialog.kind # "none"
    /\ dialog.total = 1

\* C9 as stated: while a dialog is open, what it holds of the log keeps its
\* contents and length, whatever is appended to the log meanwhile
C9_HeldLogUnchangedWhileOpen ==
    [][ dialog.kind # "none" /\ dialog'.kind # "none" =>
            dialog_blocked_attempts' = dialog_blocked_attempts ]_vars

\* the hosts the statistics dialog reads from the log, in log order
LogHosts == [i \in 1..Len(blocked_attempts) |-> extract_site(blocked_attempts[i])]

\* how many elements of hosts are h
HostCount(hosts, h) == Cardinality({i \in 1..Len(hosts) : hosts[i] = h})

\* the position of the first h in hosts
FirstSeen(hosts, h) ==
    CHOOSE i \in 1..Len(hosts) : hosts[i] = h /\ \A j \in 1..(i - 1) : hosts[j] # h

\* r is a ranking of the n most frequent of hosts
IsTopHosts(r, n, hosts) ==
    /\ Len(r) <= n
    /\ Len(r) = n \/ Len(r) = Cardinality(Range(hosts))
    /\ \A i \in 1..Len(r) : r[i][1] \in Range(hosts) /\ r[i][2] = HostCount(hosts, r[i][1])
    /\ \A i, j \in 1..Len(r) :
           i < j => /\ r[i][1] # r[j][1]
                    /\ r[i][2] >= r[j][2]
                    /\ r[i][2] = r[j][2] =>
                           FirstSeen(hosts, r[i][1]) < FirstSeen(hosts, r[j][1])
    /\ \A h \in Range(hosts) :
           h \notin {r[i][1] : i \in 1..Len(r)} =>
               \A i \in 1..Len(r) : HostCount(hosts, h) <= r[i][2]
    /\ hosts = <<>> => r = <<>>

\* C10: for every log and every n, most_common(n) of the hosts of the log is
\* at most n (host, count) pairs with exact counts, in descending count order,
\* equal counts in first-seen order, no host left out that has a higher count
\* than one listed, and nothing for an empty log; the statistics dialog shows
\* such a ranking for n = 5
C10_TopHostsRanking ==
    \E hosts \in {LogHosts} :
        /\ \A n \in 0..TopN : IsTopHosts(most_common(Counter(hosts), n), n, hosts)
        /\ dialog.kind = "statistics" => IsTopHosts(dialog.top_sites, TopN, hosts)

\* C10 witness: the statistics dialog shows three or more hosts, the first of
\* them not the host of the first record, two of them with equal counts
C10_Witness ==
    /\ call.op = "show_statistics" /\ dialog.kind = "statistics"
    /\ Len(dialog.top_sites) >= 3
    /\ dialog.top_sites[1][1] # LogHosts[1]
    /\ dialog.top_sites[1][2] > dialog.top_sites[2][2]
    /\ dialog.top_sites[2][2] = dialog.top_sites[3][2]

(* C11 -- time_histogram: every record with a well-formed timestamp t is
   counted in the bucket floor(t / interval) * interval, every reported
   bucket carries the exact number of such records (at least one), the
   buckets are listed in strictly ascending order, records with a malformed
   timestamp are skipped, so the counts sum to the number of well-formed
   records, and a report is always produced. *)

\* the clock readings whose written form is the timestamp of the entry: the
\* entry is well-formed when there is one
ReadingsOf(entry) ==
    { t \in HistTimes : StartsWith(entry, strftime(t) \o <<" ","-"," ">>) }

WellFormed(log) == { i \in 1..Len(log) : ReadingsOf(log[i]) # {} }

ReadingOf(entry) == CHOOSE t \in ReadingsOf(entry) : TRUE

FloorBucket(t) == CHOOSE b \in 0..t : b % Interval = 0 /\ b <= t /\ t < b + Interval

RECURSIVE SumSeq(_)
SumSeq(q) == IF q = <<>> THEN 0 ELSE q[1] + SumSeq(Tail(q))

IsTimeHistogram(p, log, wf) ==
    /\ p.shown \in {"plot", "No data available", "No valid timestamp data"}
    /\ Len(p.counts) = Len(p.buckets)
    /\ \A i \in wf : \E k \in 1..Len(p.buckets) : p.buckets[k] = FloorBucket(ReadingOf(log[i]))
    /\ \A k \in 1..Len(p.buckets) :
          /\ p.counts[k] >= 1
          /\ p.counts[k] = Cardinality({ i \in wf : FloorBucket(ReadingOf(log[i])) = p.buckets[k] })
    /\ \A k \in 1..(Len(p.buckets) - 1) : p.buckets[k] < p.buckets[k + 1]
    /\ SumSeq(p.counts) = Cardinality(wf)

C11_TimeHistogram ==
    dialog.kind = "statistics" =>
        \E wf \in {WellFormed(blocked_attempts)} :
            IsTimeHistogram(dialog.time_plot, blocked_attempts, wf)

\* the dialog shows two buckets, the first with two records, for a log of
\* four strings that is not in time order and of which one is malformed
C11_Witness ==
    /\ dialog.kind = "statistics"
    /\ Len(blocked_attempts) = 4
    /\ Cardinality(WellFormed(blocked_attempts)) = 3
    /\ ReadingsOf(blocked_attempts[1]) = {65}
    /\ dialog.time_plot.buckets = <<0, 60>>
    /\ dialog.time_plot.counts = <<2, 1>>

(* C12 -- the stored record of a refused request round-trips: the host the
   statistics read back from it is the lowercased host that was matched at
   refusal, and the timestamp read back is the clock reading of the refusal,
   for every URL, those containing " - " included. *)

\* the entry of the refusal that has just been handled
LastAttempt == blocked_attempts[Len(blocked_attempts)]

\* the timestamp the time plot reads back from an entry is t
ReadsBackTime(entry, t) == TimestampsOf(<<entry>>) = <<t>>

C12_RecordRoundTrips ==
    call.op = "navigate" /\ call.ret = "Deny" =>
        /\ extract_site(LastAttempt) = Lower(QUrl_host(call.arg))
        /\ \E t \in Times :
              /\ LastAttempt = log_blocked_attempt(<<>>, t, QUrl_toString(call.arg))[1]
              /\ ReadsBackTime(LastAttempt, t)

(* C13 -- the two stores are changed only by their own operations: a
   navigation request, allowed or refused, leaves the blocklist (and its list
   widget) as it was; add and remove, successful or not, leave the log as it
   was; showing the status or the statistics, closing a dialog and returning
   to the event loop leave both as they were. *)
C13_StoresChangedOnlyByOwnOperations ==
    [][ /\ call'.op = "navigate" =>
               /\ blocked_sites' = blocked_sites
               /\ blocked_list_widget' = blocked_list_widget
        /\ call'.op \in {"add", "remove"} =>
               blocked_attempts' = blocked_attempts
        /\ call'.op \in {"show_status", "show_statistics", "close", "idle"} =>
               /\ blocked_sites' = blocked_sites
               /\ blocked_list_widget' = blocked_list_widget
               /\ blocked_attempts' = blocked_attempts ]_vars

\* C13 witness: an add refused as already blocked, with two patterns on the
\* blocklist and two entries in the log
C13_Witness ==
    /\ call.op = "add" /\ call.ret = "AlreadyBlocked"
    /\ Len(blocked_sites) = 2
    /\ Len(blocked_attempts) = 2

====
